---------------------------- MODULE Spec2Model ----------------------------
(***************************************************************************)
(* Model of Concordancer_v1.py: a Streamlit script that decodes uploaded   *)
(* text files, searches them for a keyword or a regular expression and     *)
(* shows every match with a window of context words, per-file and          *)
(* per-match counts, and an export of the (filtered) result table.         *)
(*                                                                         *)
(* Bytes and characters are integers (a byte value, a Unicode code point); *)
(* a byte string or a text is a sequence of them.  32 is the space, 65 'A',*)
(* 97 'a', 40 '(', 42 '*', 124 '|', 233 'e-acute'.                         *)
(***************************************************************************)
EXTENDS Integers, Sequences, FiniteSets, TLC

\* ------------------------------------------------------------------ bounds

\* Most files of one upload (multi-file runs).
MaxFiles == 2
\* Longest raw content of the single file of a one-document run.
MaxDocLen == 5
\* Largest context window drawn from the slider's range.
MaxWindow == 2

\* --------------------------------------------------------- strings, codecs

\* str.lower() on one character of the Latin-1 range.
Lower(c) ==
    IF c \in 65..90 THEN c + 32
    ELSE IF c \in 192..222 /\ c # 215 THEN c + 32
    ELSE c

\* str.lower() on a text.
LowerStr(s) == [i \in 1..Len(s) |-> Lower(s[i])]

\* The characters str.split() treats as separators (str.isspace), up to U+00FF.
IsSpace(c) == c \in {9, 10, 11, 12, 13, 28, 29, 30, 31, 32, 133, 160}

\* str.split(): the maximal runs of non-space characters, in order.
RECURSIVE SplitFrom(_, _, _)
SplitFrom(s, i, cur) ==
    IF i > Len(s) THEN (IF cur = <<>> THEN <<>> ELSE <<cur>>)
    ELSE IF IsSpace(s[i])
         THEN (IF cur = <<>> THEN <<>> ELSE <<cur>>) \o SplitFrom(s, i + 1, <<>>)
         ELSE SplitFrom(s, i + 1, Append(cur, s[i]))

Split(s) == SplitFrom(s, 1, <<>>)

\* " ".join(words)
RECURSIVE Join(_)
Join(words) ==
    IF words = <<>> THEN <<>>
    ELSE IF Len(words) = 1 THEN words[1]
    ELSE words[1] \o <<32>> \o Join(Tail(words))

\* A continuation byte of UTF-8.
IsCont(b) == b \in 128..191

\* bytes.decode('utf-8') from byte i on: the code points, or <<-1>> at the
\* first invalid sequence (the result then contains -1).
RECURSIVE Utf8From(_, _)
Utf8From(raw, i) ==
    IF i > Len(raw) THEN <<>>
    ELSE LET b == raw[i]
             n == Len(raw)
         IN  IF b < 128 THEN <<b>> \o Utf8From(raw, i + 1)
             ELSE IF b \in 194..223 /\ i + 1 <= n /\ IsCont(raw[i + 1])
                  THEN <<(b - 192) * 64 + (raw[i + 1] - 128)>> \o Utf8From(raw, i + 2)
             ELSE IF b \in 224..239 /\ i + 2 <= n /\ IsCont(raw[i + 1]) /\ IsCont(raw[i + 2])
                     /\ (b = 224 => raw[i + 1] >= 160) /\ (b = 237 => raw[i + 1] <= 159)
                  THEN <<(b - 224) * 4096 + (raw[i + 1] - 128) * 64 + (raw[i + 2] - 128)>>
                       \o Utf8From(raw, i + 3)
             ELSE IF b \in 240..244 /\ i + 3 <= n /\ IsCont(raw[i + 1]) /\ IsCont(raw[i + 2])
                     /\ IsCont(raw[i + 3])
                     /\ (b = 240 => raw[i + 1] >= 144) /\ (b = 244 => raw[i + 1] <= 143)
                  THEN <<(b - 240) * 262144 + (raw[i + 1] - 128) * 4096
                         + (raw[i + 2] - 128) * 64 + (raw[i + 3] - 128)>>
                       \o Utf8From(raw, i + 4)
             ELSE <<-1>>

\* The bytes the cp1252 codec leaves undefined.
Cp1252Undefined == {129, 141, 143, 144, 157}

\* The cp1252 codec on one byte (128..159 differ from Latin-1).
Cp1252Char(b) ==
    CASE b = 128 -> 8364 [] b = 130 -> 8218 [] b = 131 -> 402  [] b = 132 -> 8222
      [] b = 133 -> 8230 [] b = 134 -> 8224 [] b = 135 -> 8225 [] b = 136 -> 710
      [] b = 137 -> 8240 [] b = 138 -> 352  [] b = 139 -> 8249 [] b = 140 -> 338
      [] b = 142 -> 381  [] b = 145 -> 8216 [] b = 146 -> 8217 [] b = 147 -> 8220
      [] b = 148 -> 8221 [] b = 149 -> 8226 [] b = 150 -> 8211 [] b = 151 -> 8212
      [] b = 152 -> 732  [] b = 153 -> 8482 [] b = 154 -> 353  [] b = 155 -> 8250
      [] b = 156 -> 339  [] b = 158 -> 382  [] b = 159 -> 376
      [] OTHER -> b

\* The codec names Python knows, among those the model uses.
KnownCodecs == {"utf-8", "latin-1", "iso-8859-1", "cp1252", "Windows-1252", "ascii"}

\* raw_data.decode(enc): [ok |-> TRUE, text] or [ok |-> FALSE, error], the error
\* being the exception class: UnicodeDecodeError for bytes invalid in a known
\* codec, LookupError for a codec name Python does not know (empty data decodes
\* to the empty text before any codec is looked up).
Decode(raw, enc) ==
    IF raw = <<>> THEN [ok |-> TRUE, text |-> <<>>]
    ELSE IF enc \notin KnownCodecs THEN [ok |-> FALSE, error |-> "LookupError"]
    ELSE IF enc = "utf-8" THEN
        LET t == Utf8From(raw, 1)
        IN  IF \E i \in 1..Len(t) : t[i] = -1
            THEN [ok |-> FALSE, error |-> "UnicodeDecodeError"]
            ELSE [ok |-> TRUE, text |-> t]
    ELSE IF enc = "ascii" THEN
        IF \E i \in 1..Len(raw) : raw[i] >= 128
        THEN [ok |-> FALSE, error |-> "UnicodeDecodeError"]
        ELSE [ok |-> TRUE, text |-> raw]
    ELSE IF enc \in {"cp1252", "Windows-1252"} THEN
        IF \E i \in 1..Len(raw) : raw[i] \in Cp1252Undefined
        THEN [ok |-> FALSE, error |-> "UnicodeDecodeError"]
        ELSE [ok |-> TRUE, text |-> [i \in 1..Len(raw) |-> Cp1252Char(raw[i])]]
    ELSE [ok |-> TRUE, text |-> raw]

\* fallback_encodings
fallback_encodings == <<"utf-8", "latin-1", "iso-8859-1", "cp1252", "ascii">>

\* The for loop over fallback_encodings from index k on: the first encoding that
\* decodes, or the raise after the loop.  That raise builds UnicodeDecodeError
\* from one argument, which Python rejects with a TypeError.
RECURSIVE TryFallbacks(_, _)
TryFallbacks(raw, k) ==
    IF k > Len(fallback_encodings)
    THEN [ok |-> FALSE, error |-> "TypeError"]
    ELSE LET d == Decode(raw, fallback_encodings[k])
         IN  IF d.ok THEN [ok |-> TRUE, text |-> d.text, encoding |-> fallback_encodings[k]]
             ELSE TryFallbacks(raw, k + 1)

\* detect_and_read_file, given the bytes file.read() returned and what
\* chardet.detect reported for them ("None" for no encoding).  Only
\* UnicodeDecodeError is caught around the detected encoding: any other
\* exception leaves the function.
detect_and_read_file(raw_data, encoding) ==
    IF encoding # "None"
    THEN LET d == Decode(raw_data, encoding)
         IN  IF d.ok THEN [ok |-> TRUE, text |-> d.text, encoding |-> encoding]
             ELSE IF d.error = "UnicodeDecodeError" THEN TryFallbacks(raw_data, 1)
             ELSE [ok |-> FALSE, error |-> d.error]
    ELSE TryFallbacks(raw_data, 1)

\* ------------------------------------------------------------------- state

VARIABLES
    uploaded_files,        \* the upload: a sequence of [name, raw_data, detected]
    file_pos,              \* each uploaded file's read position (a byte offset)
    file_reads,            \* how often each file was read during the current run
    search_type,           \* "Simple Keyword" or "Regular Expression"
    search_term,           \* the text of the search box
    case_sensitive,        \* the checkbox
    context_window,        \* the slider
    pc,                    \* where the script is: "search", "files", "display", "done"
    idx,                   \* enumerate(uploaded_files): the 0-based index of the next file
    all_concordance_data,  \* the rows (File, Pre-Context, Match, Post-Context)
    origin,                \* per row: the file index and the span the row was built from
    file_encodings,        \* filename -> encoding used
    messages,              \* what st.error / st.write reported during the current run
    file_stats,            \* <<occurrences per file>>, or <<>> while not computed
    pattern_stats,         \* <<occurrences per matched text>>, or <<>> while not computed
    selected_files,        \* <<the file filter's selection>>, or <<>> while not shown
    export,                \* <<the rows of the CSV / Excel download>>, or <<>>
    previous               \* <<the results of the previous execution>>, or <<>>

vars == <<uploaded_files, file_pos, file_reads, search_type, search_term, case_sensitive,
          context_window, pc, idx, all_concordance_data, origin, file_encodings,
          messages, file_stats, pattern_stats, selected_files, export, previous>>

\* ------------------------------------------------------------ re (the regex
\* engine), for the patterns the model draws: literals, a starred literal,
\* alternation, and an unbalanced parenthesis.

\* The parser of re.compile from character i on.  alts are the finished
\* alternatives, cur the items of the one being read; an item is a literal
\* with or without a star.
RECURSIVE ParseFrom(_, _, _, _)
ParseFrom(term, i, alts, cur) ==
    IF i > Len(term) THEN [ok |-> TRUE, alts |-> Append(alts, cur)]
    ELSE LET c == term[i]
         IN  IF c = 124 THEN ParseFrom(term, i + 1, Append(alts, cur), <<>>)
             ELSE IF c \in {40, 41} THEN [ok |-> FALSE, error |-> "re.error"]
             ELSE IF c = 42 THEN
                 IF cur = <<>> \/ cur[Len(cur)].star
                 THEN [ok |-> FALSE, error |-> "re.error"]
                 ELSE ParseFrom(term, i + 1, alts,
                                [cur EXCEPT ![Len(cur)] = [ch |-> cur[Len(cur)].ch, star |-> TRUE]])
             ELSE ParseFrom(term, i + 1, alts, Append(cur, [ch |-> c, star |-> FALSE]))

\* Fault variant of Compile: the term is taken literally (as if escaped), so
\* that no term fails to compile.
CompileLiteral(term, ignorecase) ==
    [ok |-> TRUE,
     alts |-> << [i \in 1..Len(term) |-> [ch |-> term[i], star |-> FALSE]] >>,
     ignorecase |-> ignorecase]

\* re.compile(search_term) or re.compile(search_term, re.IGNORECASE)
Compile(term, ignorecase) ==
    LET p == ParseFrom(term, 1, <<>>, <<>>)
    IN  IF p.ok THEN [ok |-> TRUE, alts |-> p.alts, ignorecase |-> ignorecase] ELSE p

\* One character of the text against a literal of the pattern.
CharEq(c, lit, ignorecase) == IF ignorecase THEN Lower(c) = Lower(lit) ELSE c = lit

\* The length of the run of characters matching lit that starts at offset pos.
RECURSIVE RunLen(_, _, _, _)
RunLen(text, pos, lit, ignorecase) ==
    IF pos < Len(text) /\ CharEq(text[pos + 1], lit, ignorecase)
    THEN 1 + RunLen(text, pos + 1, lit, ignorecase)
    ELSE 0

\* The backtracking matcher on the items of one alternative from item k on, at
\* offset pos of a match begun at offset start: the end offset of the first
\* match in priority order (a star is greedy), or -1.  With must_advance a
\* match that ends where it began is rejected and the matcher backtracks.
RECURSIVE MatchItems(_, _, _, _, _, _, _)
RECURSIVE TryStar(_, _, _, _, _, _, _, _)
MatchItems(items, k, text, pos, start, must_advance, ignorecase) ==
    IF k > Len(items) THEN (IF must_advance /\ pos = start THEN -1 ELSE pos)
    ELSE IF items[k].star
         THEN TryStar(items, k, text, pos, start, must_advance, ignorecase,
                      RunLen(text, pos, items[k].ch, ignorecase))
         ELSE IF pos < Len(text) /\ CharEq(text[pos + 1], items[k].ch, ignorecase)
              THEN MatchItems(items, k + 1, text, pos + 1, start, must_advance, ignorecase)
              ELSE -1

TryStar(items, k, text, pos, start, must_advance, ignorecase, n) ==
    IF n < 0 THEN -1
    ELSE LET r == MatchItems(items, k + 1, text, pos + n, start, must_advance, ignorecase)
         IN  IF r # -1 THEN r
             ELSE TryStar(items, k, text, pos, start, must_advance, ignorecase, n - 1)

\* The alternatives from the a-th on, tried in order at offset pos.
RECURSIVE MatchAlts(_, _, _, _, _)
MatchAlts(pattern, a, text, pos, must_advance) ==
    IF a > Len(pattern.alts) THEN -1
    ELSE LET r == MatchItems(pattern.alts[a], 1, text, pos, pos, must_advance,
                             pattern.ignorecase)
         IN  IF r # -1 THEN r ELSE MatchAlts(pattern, a + 1, text, pos, must_advance)

\* pattern.finditer(text) from offset pos on: the spans [start, end) of the
\* matches, scanning left to right.  Each search resumes where the previous
\* match ended; after an empty match the next one may not be empty at the same
\* offset (must_advance holds for the first offset tried only).
RECURSIVE SearchFrom(_, _, _, _, _)
RECURSIVE FindIterFrom(_, _, _, _)
SearchFrom(pattern, text, s, pos, must_advance) ==
    IF s > Len(text) THEN [start |-> -1, end |-> -1]
    ELSE LET e == MatchAlts(pattern, 1, text, s, must_advance /\ s = pos)
         IN  IF e # -1 THEN [start |-> s, end |-> e]
             ELSE SearchFrom(pattern, text, s + 1, pos, must_advance)

FindIterFrom(pattern, text, pos, must_advance) ==
    LET m == SearchFrom(pattern, text, pos, pos, must_advance)
    IN  IF m.start = -1 THEN <<>>
        ELSE <<m>> \o FindIterFrom(pattern, text, m.end, m.end = m.start)

finditer(pattern, text) == FindIterFrom(pattern, text, 0, FALSE)

\* ------------------------------------------------------------ the search

Min(a, b) == IF a <= b THEN a ELSE b
Max(a, b) == IF a >= b THEN a ELSE b

\* The Python slice seq[a:b] for 0 <= a (the end is clamped to the length).
PySlice(seq, a, b) == SubSeq(seq, a + 1, Min(b, Len(seq)))

\* The Python slice seq[-n:] for 1 <= n.
PyLast(seq, n) == SubSeq(seq, Max(Len(seq) - n, 0) + 1, Len(seq))

\* nlp(text): the tokens of the document.  The tokenizer is spaCy's; it is
\* modelled on texts of letters and spaces, where its word tokens are the
\* whitespace-delimited words.
nlp(text) == Split(text)

\* The pre-context of the token at position i of doc.
KeywordPreContext(doc, i) == Join(PySlice(doc, Max(0, i - context_window), i))

\* The post-context of the token at position i of doc.
KeywordPostContext(doc, i) == Join(PySlice(doc, i + 1, i + 1 + context_window))

\* Fault variant of TokenMatches: the case flag is ignored and the token is
\* compared as it stands.
TokenMatchesExactCase(token) == token = search_term

\* Whether the token matches the search term.
TokenMatches(token) ==
    LET token_text  == IF case_sensitive THEN token ELSE LowerStr(token)
        search_text == IF case_sensitive THEN search_term ELSE LowerStr(search_term)
    IN  token_text = search_text

\* The keyword branch's loop over enumerate(doc) from position i on: one row
\* per matching token, with the position it was found at.
RECURSIVE KeywordRowsFrom(_, _, _)
KeywordRowsFrom(filename, doc, i) ==
    IF i >= Len(doc) THEN <<>>
    ELSE (IF TokenMatches(doc[i + 1])
          THEN << [row |-> <<filename, KeywordPreContext(doc, i), doc[i + 1],
                             KeywordPostContext(doc, i)>>,
                   at  |-> [start |-> i, end |-> i + 1]] >>
          ELSE <<>>)
         \o KeywordRowsFrom(filename, doc, i + 1)

\* The pattern compiled before the loop over the files.
pattern == Compile(search_term, ~case_sensitive)

\* Fault variant of RegexPreContext: the first words of the text before the
\* match instead of the last.
RegexPreContextFirstWords(text, start) ==
    Join(PySlice(Split(SubSeq(text, 1, start)), 0, context_window))

\* The pre-context of a regex match that starts at offset start.
RegexPreContext(text, start) ==
    LET pre_text == Split(SubSeq(text, 1, start))
    IN  Join(IF Len(pre_text) > context_window THEN PyLast(pre_text, context_window)
             ELSE pre_text)

\* The post-context of a regex match that ends at offset end.
RegexPostContext(text, end) ==
    LET post_text == Split(SubSeq(text, end + 1, Len(text)))
    IN  Join(IF Len(post_text) > context_window THEN PySlice(post_text, 0, context_window)
             ELSE post_text)

\* Fault variant of RegexRowsFrom: empty matches are skipped.
RECURSIVE RegexRowsSkipEmpty(_, _, _, _)
RegexRowsSkipEmpty(filename, text, matches, k) ==
    IF k > Len(matches) THEN <<>>
    ELSE LET m == matches[k]
         IN  (IF m.end = m.start THEN <<>>
              ELSE << [row |-> <<filename, RegexPreContext(text, m.start),
                                 SubSeq(text, m.start + 1, m.end),
                                 RegexPostContext(text, m.end)>>,
                       at  |-> m] >>)
             \o RegexRowsSkipEmpty(filename, text, matches, k + 1)

\* The regex branch's loop over the matches from the k-th on: one row per match.
RECURSIVE RegexRowsFrom(_, _, _, _)
RegexRowsFrom(filename, text, matches, k) ==
    IF k > Len(matches) THEN <<>>
    ELSE LET m == matches[k]
         IN  << [row |-> <<filename, RegexPreContext(text, m.start),
                           SubSeq(text, m.start + 1, m.end),
                           RegexPostContext(text, m.end)>>,
                 at  |-> m] >>
             \o RegexRowsFrom(filename, text, matches, k + 1)

\* The rows one decoded file adds to all_concordance_data, in the order added.
FileRows(filename, text) ==
    IF search_type = "Simple Keyword"
    THEN KeywordRowsFrom(filename, nlp(text), 0)
    ELSE RegexRowsFrom(filename, text, finditer(pattern, text), 1)

\* file.read(): the bytes from the read position to the end of the file.
FileRead(file, pos) == SubSeq(file.raw_data, pos + 1, Len(file.raw_data))

\* Fault variant of PosAfterRead: no seek(0), the position stays at the end.
PosWithoutSeek(file, pos) == Len(file.raw_data)

\* The read position after file.read() and file.seek(0).
PosAfterRead(file, pos) == 0

\* chardet.detect(raw_data)['encoding']: None for no data, else what the
\* detector reports for this file.
ChardetEncoding(file, raw_data) == IF raw_data = <<>> THEN "None" ELSE file.detected

\* What detect_and_read_file(uploaded_file) returns or raises for the k-th file
\* (k from 0) at its current read position.
ReadResult(k) ==
    LET file     == uploaded_files[k + 1]
        raw_data == FileRead(file, file_pos[k + 1])
    IN  detect_and_read_file(raw_data, ChardetEncoding(file, raw_data))

\* Fault variant of ValueCounts: each value once (the distinct values, not
\* their occurrences).
ValueCountsOfOne(column) == [key \in {column[i] : i \in DOMAIN column} |-> 1]

\* Series.value_counts(): each value of the column with the number of rows
\* that hold it.
ValueCounts(column) ==
    [key \in {column[i] : i \in DOMAIN column} |->
        Cardinality({i \in DOMAIN column : column[i] = key})]

\* One column of the rows (1 File, 2 Pre-Context, 3 Match, 4 Post-Context).
Column(rows, c) == [i \in DOMAIN rows |-> rows[i][c]]

\* concordance_df[concordance_df['File'].isin(selected)]: the rows of the
\* selected files, in order.
RECURSIVE FilterRows(_, _)
FilterRows(rows, selected) ==
    IF rows = <<>> THEN <<>>
    ELSE (IF rows[1][1] \in selected THEN <<rows[1]>> ELSE <<>>)
         \o FilterRows(Tail(rows), selected)

\* The function with one more (or one replaced) key: d[key] = value.
DictSet(d, key, value) ==
    [k \in DOMAIN d \cup {key} |-> IF k = key THEN value ELSE d[k]]

\* The empty dict.
EmptyDict == [k \in {} |-> "None"]

\* ------------------------------------------------------------------ inputs

\* The names of the uploaded files, by position in the upload.
Names == <<"a.txt", "b.txt", "c.txt", "d.txt">>

\* The files of the multi-file runs: content and what the detector reports.
\* "a" / "a a" / "A a" / "aa" / an empty file / a Latin-1 file with an e-acute /
\* a UTF-8 file cut inside a two-byte character / a file the detector takes for
\* EUC-TW, a name Python has no codec for.
AppFiles ==
    { [raw_data |-> <<97>>,          detected |-> "ascii"],
      [raw_data |-> <<97, 32, 97>>,  detected |-> "ascii"],
      [raw_data |-> <<65, 32, 97>>,  detected |-> "None"],
      [raw_data |-> <<>>,            detected |-> "None"],
      [raw_data |-> <<233, 32, 97>>, detected |-> "Windows-1252"],
      [raw_data |-> <<97, 195>>,     detected |-> "utf-8"],
      [raw_data |-> <<97, 97>>,      detected |-> "EUC-TW"] }

\* The bytes of the one-document runs: 'a', 'A' and the space.
DocBytes == {97, 65, 32}

\* The byte strings over DocBytes of at most n bytes.
BytesUpTo(n) == UNION {[1..k -> DocBytes] : k \in 0..n}

\* The files of the one-document runs: every content up to MaxDocLen, detected
\* as nothing (so that UTF-8 decodes it) or, wrongly, as EUC-TW.
DocFiles ==
    {[raw_data |-> r, detected |-> d] :
        r \in BytesUpTo(MaxDocLen), d \in {"None"}}
    \cup {[raw_data |-> r, detected |-> "EUC-TW"] : r \in BytesUpTo(1) \ {<<>>}}

\* The search terms: none, "a", "A", "aa", "a*", "|a" and "(".
SearchTerms == {<<>>, <<97>>, <<65>>, <<97, 97>>, <<97, 42>>, <<124, 97>>, <<40>>}

SearchTypes == {"Simple Keyword", "Regular Expression"}

\* The upload with its names: the k-th file is called Names[k].
Named(files) ==
    [k \in DOMAIN files |->
        [name |-> Names[k], raw_data |-> files[k].raw_data, detected |-> files[k].detected]]

\* The state of a session before the script's first execution reaches the
\* search: nothing read, nothing found.
FreshRun ==
    /\ file_pos = [k \in DOMAIN uploaded_files |-> 0]
    /\ file_reads = [k \in DOMAIN uploaded_files |-> 0]
    /\ pc = "search"
    /\ idx = 0
    /\ all_concordance_data = <<>>
    /\ origin = <<>>
    /\ file_encodings = EmptyDict
    /\ messages = <<>>
    /\ file_stats = <<>>
    /\ pattern_stats = <<>>
    /\ selected_files = <<>>
    /\ export = <<>>
    /\ previous = <<>>

\* The widgets: any search type, term, case flag and window of the slider.
Widgets ==
    /\ search_type \in SearchTypes
    /\ search_term \in SearchTerms
    /\ case_sensitive \in BOOLEAN
    /\ context_window \in 1..MaxWindow

\* An upload of one to MaxFiles files.
Init ==
    /\ \E n \in 1..MaxFiles : \E files \in [1..n -> AppFiles] : uploaded_files = Named(files)
    /\ Widgets
    /\ FreshRun

\* An upload of one document.
InitDoc ==
    /\ \E f \in DocFiles : uploaded_files = Named(<<f>>)
    /\ Widgets
    /\ FreshRun

\* ----------------------------------------------------------------- actions

\* if search_term: is false; nothing is searched.
NoSearchTerm ==
    /\ pc = "search"
    /\ search_term = <<>>
    /\ pc' = "done"
    /\ UNCHANGED <<uploaded_files, file_pos, file_reads, search_type, search_term,
                   case_sensitive, context_window, idx, all_concordance_data, origin,
                   file_encodings, messages, file_stats, pattern_stats, selected_files,
                   export, previous>>

\* What the except re.error handler reports: one st.error and one st.info.
PatternErrorMessages ==
    << [level |-> "error", about |-> "pattern", text |-> "Invalid regular expression"],
       [level |-> "info", about |-> "pattern", text |-> "Please check your regex pattern syntax."] >>

\* re.compile raises; the handler of the outer try reports it.
PatternError ==
    /\ pc = "search"
    /\ search_term # <<>>
    /\ search_type = "Regular Expression"
    /\ ~pattern.ok
    /\ messages' = messages \o PatternErrorMessages
    /\ pc' = "done"
    /\ UNCHANGED <<uploaded_files, file_pos, file_reads, search_type, search_term,
                   case_sensitive, context_window, idx, all_concordance_data, origin,
                   file_encodings, file_stats, pattern_stats, selected_files,
                   export, previous>>

\* The pattern compiled (or keyword mode): the loop over the files begins.
BeginSearch ==
    /\ pc = "search"
    /\ search_term # <<>>
    /\ search_type = "Regular Expression" => pattern.ok
    /\ pc' = "files"
    /\ idx' = 0
    /\ UNCHANGED <<uploaded_files, file_pos, file_reads, search_type, search_term,
                   case_sensitive, context_window, all_concordance_data, origin,
                   file_encodings, messages, file_stats, pattern_stats, selected_files,
                   export, previous>>

\* Fault variant of AppendRows: the rows of the file are put in front.
PrependRows(data, rows) == [i \in DOMAIN rows |-> rows[i].row] \o data

\* The rows after the rows of one more file were appended.
AppendRows(data, rows) == data \o [i \in DOMAIN rows |-> rows[i].row]

\* One iteration of the loop whose file decodes: its encoding is recorded and
\* its matches are appended.
ProcessFile ==
    /\ pc = "files"
    /\ idx < Len(uploaded_files)
    /\ \E r \in {ReadResult(idx)} :
          /\ r.ok
          /\ \E rows \in {FileRows(uploaded_files[idx + 1].name, r.text)} :
                /\ all_concordance_data' = AppendRows(all_concordance_data, rows)
                /\ origin' = origin \o [i \in DOMAIN rows |->
                                 [file |-> idx, start |-> rows[i].at.start,
                                  end |-> rows[i].at.end]]
          /\ file_encodings' = DictSet(file_encodings, uploaded_files[idx + 1].name,
                                       r.encoding)
    /\ file_pos' = [file_pos EXCEPT ![idx + 1] = PosAfterRead(uploaded_files[idx + 1], @)]
    /\ file_reads' = [file_reads EXCEPT ![idx + 1] = @ + 1]
    /\ idx' = idx + 1
    /\ UNCHANGED <<uploaded_files, search_type, search_term, case_sensitive,
                   context_window, pc, messages, file_stats, pattern_stats,
                   selected_files, export, previous>>

\* Fault variant of IndexAfterFileError: break, so the loop ends.
BreakOnFileError(i) == Len(uploaded_files)

\* The index the loop goes on with after the handler of the file at index i:
\* continue, so the next file.
IndexAfterFileError(i) == i + 1

\* One iteration of the loop whose file raises in detect_and_read_file: the
\* except Exception handler reports the file and the loop continues.
FileError ==
    /\ pc = "files"
    /\ idx < Len(uploaded_files)
    /\ \E r \in {ReadResult(idx)} :
          /\ ~r.ok
          /\ messages' = Append(messages, [level |-> "error",
                                           about |-> uploaded_files[idx + 1].name,
                                           text  |-> r.error])
    /\ file_pos' = [file_pos EXCEPT ![idx + 1] = PosAfterRead(uploaded_files[idx + 1], @)]
    /\ file_reads' = [file_reads EXCEPT ![idx + 1] = @ + 1]
    /\ idx' = IndexAfterFileError(idx)
    /\ UNCHANGED <<uploaded_files, search_type, search_term, case_sensitive,
                   context_window, pc, all_concordance_data, origin, file_encodings, file_stats,
                   pattern_stats, selected_files, export, previous>>

\* file_stats: the occurrences per file.
FileStats(data) == <<ValueCounts(Column(data, 1))>>

\* pattern_stats: the occurrences per matched text, computed in regex mode only.
PatternStats(data) ==
    IF search_type = "Regular Expression" THEN <<ValueCounts(Column(data, 3))>> ELSE <<>>

\* Fault variant of ExportRows: the unfiltered table is exported.
ExportAllRows(data, selected) == data

\* The rows of filtered_df, which both downloads serialize.
ExportRows(data, selected) == FilterRows(data, selected)

\* After the loop, with matches: the table, the filter (any selection of the
\* files that have rows; all of them by default), the statistics, the export.
DisplayResults ==
    /\ pc = "files"
    /\ idx = Len(uploaded_files)
    /\ all_concordance_data # <<>>
    /\ messages' = Append(messages, [level |-> "write", about |-> "found",
                                     text  |-> Len(all_concordance_data)])
    /\ \E selected \in SUBSET {all_concordance_data[i][1] : i \in DOMAIN all_concordance_data} :
          /\ selected_files' = <<selected>>
          /\ export' = <<ExportRows(all_concordance_data, selected)>>
    /\ file_stats' = FileStats(all_concordance_data)
    /\ pattern_stats' = PatternStats(all_concordance_data)
    /\ pc' = "done"
    /\ UNCHANGED <<uploaded_files, file_pos, file_reads, search_type, search_term,
                   case_sensitive, context_window, idx, all_concordance_data, origin,
                   file_encodings, previous>>

\* After the loop, without matches.
NoMatches ==
    /\ pc = "files"
    /\ idx = Len(uploaded_files)
    /\ all_concordance_data = <<>>
    /\ messages' = Append(messages, [level |-> "write", about |-> "no matches",
                                     text  |-> 0])
    /\ pc' = "done"
    /\ UNCHANGED <<uploaded_files, file_pos, file_reads, search_type, search_term,
                   case_sensitive, context_window, idx, all_concordance_data, origin,
                   file_encodings, file_stats, pattern_stats, selected_files, export,
                   previous>>

\* What a new execution of the script starts from: all_concordance_data = []
\* and file_encodings = {}.
InitialData == <<>>

\* The script runs a second time over the same upload and the same widget
\* values: its variables are initialised anew, the uploaded file objects are
\* the same.
Rerun ==
    /\ pc = "done"
    /\ previous = <<>>
    /\ previous' = << [data |-> all_concordance_data, file_stats |-> file_stats,
                       pattern_stats |-> pattern_stats, file_encodings |-> file_encodings,
                       messages |-> messages] >>
    /\ all_concordance_data' = InitialData
    /\ origin' = <<>>
    /\ file_encodings' = EmptyDict
    /\ messages' = <<>>
    /\ file_stats' = <<>>
    /\ pattern_stats' = <<>>
    /\ selected_files' = <<>>
    /\ export' = <<>>
    /\ file_reads' = [k \in DOMAIN uploaded_files |-> 0]
    /\ idx' = 0
    /\ pc' = "search"
    /\ UNCHANGED <<uploaded_files, file_pos, search_type, search_term, case_sensitive,
                   context_window>>

Next ==
    \/ NoSearchTerm
    \/ PatternError
    \/ BeginSearch
    \/ ProcessFile
    \/ FileError
    \/ DisplayResults
    \/ NoMatches
    \/ Rerun

Spec == Init /\ [][Next]_vars

SpecDoc == InitDoc /\ [][Next]_vars

\* ------------------------------------------------------------- properties

\* The loop over the files has ended and the results (or their absence) were
\* displayed.
Searched == pc = "done" /\ messages # <<>> /\ messages[Len(messages)].level = "write"

\* What decoding the whole content of the file at index k (from 0) gives.
Decoded(k) ==
    LET file == uploaded_files[k + 1]
    IN  detect_and_read_file(file.raw_data, ChardetEncoding(file, file.raw_data))

\* The indexes (from 0) of the files the loop has been through.
Visited == IF pc \in {"files", "done"} THEN 0..(idx - 1) ELSE {}

\* The words (regex mode) or tokens (keyword mode) before the span o of text.
WordsBefore(text, o) ==
    IF search_type = "Simple Keyword" THEN SubSeq(nlp(text), 1, o.start)
    ELSE Split(SubSeq(text, 1, o.start))

\* The words (regex mode) or tokens (keyword mode) after the span o of text.
WordsAfter(text, o) ==
    IF search_type = "Simple Keyword" THEN SubSeq(nlp(text), o.end + 1, Len(nlp(text)))
    ELSE Split(SubSeq(text, o.end + 1, Len(text)))

FileIndex(name) == CHOOSE k \in DOMAIN uploaded_files : uploaded_files[k].name = name

\* Every row is the row of the span recorded for it.
RowsHaveOrigins ==
    /\ Len(origin) = Len(all_concordance_data)
    /\ \A j \in DOMAIN origin :
          all_concordance_data[j][1] = uploaded_files[origin[j].file + 1].name

\* C2 as stated: the rows are grouped by file in upload order and, within one
\* file, in strictly increasing match start offset (regex mode) or token
\* position (keyword mode).
C2_StrictlyIncreasingStarts ==
    /\ RowsHaveOrigins
    /\ \A i, j \in DOMAIN all_concordance_data :
          i < j =>
             /\ FileIndex(all_concordance_data[i][1]) <= FileIndex(all_concordance_data[j][1])
             /\ origin[i].file = origin[j].file => origin[i].start < origin[j].start

\* C2, amended: the rows are grouped by file in upload order and, within one
\* file, in non-decreasing start order; two rows of a file share their start
\* only in regex mode, when an empty match is followed by a non-empty match at
\* the same offset.  Token positions (keyword mode) increase strictly.
C2_OrderedByFileThenStart ==
    /\ RowsHaveOrigins
    /\ \A i, j \in DOMAIN all_concordance_data :
          i < j =>
             /\ FileIndex(all_concordance_data[i][1]) <= FileIndex(all_concordance_data[j][1])
             /\ origin[i].file = origin[j].file =>
                   /\ origin[i].start <= origin[j].start
                   /\ origin[i].start = origin[j].start =>
                         /\ search_type = "Regular Expression"
                         /\ origin[i].end = origin[i].start
                         /\ origin[j].end > origin[j].start

\* C2's case: a finished search with rows of two files, two rows of one file
\* at different starts, and two rows of one file at the same start.
C2_Witness ==
    /\ Searched
    /\ \E i, j \in DOMAIN origin : origin[i].file # origin[j].file
    /\ \E i, j \in DOMAIN origin :
          origin[i].file = origin[j].file /\ origin[i].start < origin[j].start
    /\ \E i, j \in DOMAIN origin :
          i < j /\ origin[i].file = origin[j].file /\ origin[i].start = origin[j].start

\* The search terms that are no valid regular expression: "(".
InvalidTerms == {<<40>>}

\* C3: in regex mode a pattern with invalid syntax ends the search at
\* compilation: no file is read, no row is appended, no encoding is recorded,
\* no frequency table and no export is produced, and exactly one error is
\* reported for the whole search, about the pattern.
C3_InvalidPatternAborts ==
    (search_type = "Regular Expression" /\ search_term \in InvalidTerms) =>
        /\ pc \in {"search", "done"}
        /\ \A k \in DOMAIN uploaded_files : file_reads[k] = 0 /\ file_pos[k] = 0
        /\ all_concordance_data = <<>>
        /\ file_encodings = EmptyDict
        /\ file_stats = <<>> /\ pattern_stats = <<>> /\ export = <<>>
        /\ pc = "done" =>
              /\ Cardinality({i \in DOMAIN messages : messages[i].level = "error"}) = 1
              /\ \A i \in DOMAIN messages : messages[i].about = "pattern"

\* C3's case: the script has ended on an invalid pattern over two files.
C3_Witness ==
    /\ pc = "done"
    /\ search_type = "Regular Expression" /\ search_term \in InvalidTerms
    /\ Len(uploaded_files) = 2
    /\ \E i \in DOMAIN messages : messages[i].level = "error"

\* The candidates detect_and_read_file is to try for the file at index k, in
\* order: the detected encoding, if any, then the fallback list.
Candidates(k) ==
    LET file == uploaded_files[k + 1]
        enc  == ChardetEncoding(file, file.raw_data)
    IN  (IF enc = "None" THEN <<>> ELSE <<enc>>) \o fallback_encodings

\* The positions of the candidates that decode the file at index k.
Decodable(k) ==
    {c \in DOMAIN Candidates(k) : Decode(uploaded_files[k + 1].raw_data, Candidates(k)[c]).ok}

\* C4 as stated: a candidate that fails to decode falls through to the next;
\* the file is read with the first candidate that decodes, and reading fails
\* only if no candidate decodes.
C4_FirstDecodableCandidateWins ==
    \A k \in Visited :
        Decodable(k) # {} =>
            /\ uploaded_files[k + 1].name \in DOMAIN file_encodings
            /\ \E c \in Decodable(k) :
                  /\ \A d \in Decodable(k) : c <= d
                  /\ file_encodings[uploaded_files[k + 1].name] = Candidates(k)[c]

\* What decoding the whole content of a file gives.
DecodedFile(file) ==
    detect_and_read_file(file.raw_data, ChardetEncoding(file, file.raw_data))

\* The rows of a search over files that all decode: the rows of each file, in
\* the order of the files.
RECURSIVE SearchRows(_)
SearchRows(files) ==
    IF files = <<>> THEN <<>>
    ELSE LET rows == FileRows(files[1].name, DecodedFile(files[1]).text)
         IN  [i \in DOMAIN rows |-> rows[i].row] \o SearchRows(Tail(files))

\* Whether a file decodes.
Decodes(file) == DecodedFile(file).ok

\* C5: a file that cannot be decoded contributes no row and no encoding entry,
\* an error naming it is reported, the loop goes on through every file of the
\* upload, and the rows of the search are exactly the rows of the same search
\* over the upload without the files that failed.
C5_FailedFileIsIsolated ==
    /\ \A k \in Visited :
          ~Decoded(k).ok =>
             /\ uploaded_files[k + 1].name \notin DOMAIN file_encodings
             /\ \A j \in DOMAIN origin : origin[j].file # k
             /\ \E i \in DOMAIN messages :
                   /\ messages[i].level = "error"
                   /\ messages[i].about = uploaded_files[k + 1].name
    /\ Searched =>
          /\ idx = Len(uploaded_files)
          /\ \A k \in DOMAIN uploaded_files : file_reads[k] = 1
          /\ all_concordance_data = SearchRows(SelectSeq(uploaded_files, Decodes))

\* C5's case: a finished search in which a file failed to decode and a later
\* file contributed rows.
C5_Witness ==
    /\ Searched
    /\ \E k \in Visited :
          /\ ~Decoded(k).ok
          /\ \E j \in DOMAIN origin : origin[j].file > k

\* The number of entries of a column equal to key.
RECURSIVE CountIn(_, _)
CountIn(column, key) ==
    IF column = <<>> THEN 0
    ELSE (IF column[1] = key THEN 1 ELSE 0) + CountIn(Tail(column), key)

\* The sum of the counts of a table over the given keys.
RECURSIVE SumOver(_, _)
SumOver(table, keys) ==
    IF keys = {} THEN 0
    ELSE LET k == CHOOSE x \in keys : TRUE
         IN  table[k] + SumOver(table, keys \ {k})

\* A frequency table that is exact and exhaustive over a column: its keys are
\* the values of the column, each with the number of rows holding it, and the
\* counts add up to the number of rows.
ExactCounts(table, column) ==
    /\ DOMAIN table = {column[i] : i \in DOMAIN column}
    /\ \A key \in DOMAIN table : table[key] = CountIn(column, key)
    /\ SumOver(table, DOMAIN table) = Len(column)

\* C6 as stated: after any search with matches, in keyword mode as in regex
\* mode, both tables (per file, per matched text) are produced and exact.
C6_BothTablesInBothModes ==
    (Searched /\ all_concordance_data # <<>>) =>
        /\ file_stats # <<>>
        /\ ExactCounts(file_stats[1], Column(all_concordance_data, 1))
        /\ pattern_stats # <<>>
        /\ ExactCounts(pattern_stats[1], Column(all_concordance_data, 3))

\* C6, amended: after a search with matches the per-file table is produced and
\* exact in both modes; the per-matched-text table is produced, and exact, in
\* regex mode only.  A search without matches produces no table.
C6_TablesCountRows ==
    /\ (Searched /\ all_concordance_data # <<>>) =>
          /\ file_stats # <<>>
          /\ ExactCounts(file_stats[1], Column(all_concordance_data, 1))
          /\ search_type = "Regular Expression" =>
                /\ pattern_stats # <<>>
                /\ ExactCounts(pattern_stats[1], Column(all_concordance_data, 3))
          /\ search_type = "Simple Keyword" => pattern_stats = <<>>
    /\ (Searched /\ all_concordance_data = <<>>) =>
          file_stats = <<>> /\ pattern_stats = <<>>

\* C6's case: a regex search with one match in a.txt and two in b.txt, of two
\* distinct matched texts.
C6_Witness ==
    /\ Searched
    /\ search_type = "Regular Expression"
    /\ Len(all_concordance_data) = 3
    /\ file_stats = << ("a.txt" :> 1 @@ "b.txt" :> 2) >>
    /\ pattern_stats # <<>>
    /\ Cardinality(DOMAIN pattern_stats[1]) = 2

\* The rows of the file called name, in order.
RowsOf(name) == SelectSeq(all_concordance_data, LAMBDA r : r[1] = name)

\* The number of matches of the pattern over the files that decode.
RECURSIVE MatchCount(_)
MatchCount(files) ==
    IF files = <<>> THEN 0
    ELSE Len(finditer(pattern, DecodedFile(files[1]).text)) + MatchCount(Tail(files))

\* C7: in regex mode, for every decoded file the rows are the matches of
\* finditer, one row per match and in order, empty matches included; the
\* matches do not overlap; each row's Match is the matched substring; and the
\* number of rows is the number of matches over all files.
C7_RegexRowsAreTheMatches ==
    (Searched /\ search_type = "Regular Expression") =>
        /\ \A k \in DOMAIN uploaded_files :
              Decodes(uploaded_files[k]) =>
                 \A text \in {DecodedFile(uploaded_files[k]).text} :
                 \A matches \in {finditer(pattern, text)} :
                 \A rows \in {RowsOf(uploaded_files[k].name)} :
                    /\ Len(rows) = Len(matches)
                    /\ \A q \in DOMAIN matches :
                          /\ rows[q][3] = SubSeq(text, matches[q].start + 1, matches[q].end)
                          /\ Len(rows[q][3]) = matches[q].end - matches[q].start
                          /\ q < Len(matches) => matches[q].end <= matches[q + 1].start
        /\ Len(all_concordance_data) = MatchCount(SelectSeq(uploaded_files, Decodes))

\* C7's case: a finished regex search with an empty match, a non-empty match
\* and at least three matches.
C7_Witness ==
    /\ Searched
    /\ search_type = "Regular Expression"
    /\ Len(all_concordance_data) >= 3
    /\ \E j \in DOMAIN all_concordance_data : all_concordance_data[j][3] = <<>>
    /\ \E j \in DOMAIN all_concordance_data : all_concordance_data[j][3] # <<>>

\* The token positions (from 0) of doc whose token equals the search term:
\* exactly when the search is case sensitive, up to case when it is not.
EqualTokens(doc) ==
    {i \in 0..(Len(doc) - 1) :
        IF case_sensitive THEN doc[i + 1] = search_term
        ELSE /\ Len(doc[i + 1]) = Len(search_term)
             /\ \A c \in DOMAIN search_term : Lower(doc[i + 1][c]) = Lower(search_term[c])}

\* C8: in keyword mode the rows of a decoded file are one row for each token
\* position whose token equals the search term (up to case unless the search
\* is case sensitive) and none for any other position; each row's Match is the
\* token as it stands in the text.
C8_KeywordRowsAreTheEqualTokens ==
    (Searched /\ search_type = "Simple Keyword") =>
        \A k \in DOMAIN uploaded_files :
            Decodes(uploaded_files[k]) =>
               \A doc \in {nlp(DecodedFile(uploaded_files[k]).text)} :
               \A found \in {{j \in DOMAIN origin : origin[j].file = k - 1}} :
                  /\ Cardinality(found) = Cardinality(EqualTokens(doc))
                  /\ {origin[j].start : j \in found} = EqualTokens(doc)
                  /\ \A j \in found :
                        /\ all_concordance_data[j][3] = doc[origin[j].start + 1]
                        /\ all_concordance_data[j][1] = uploaded_files[k].name

\* C8's case: a case-insensitive keyword search for "a" that found the token
\* "A" and left another token out.
C8_Witness ==
    /\ Searched
    /\ search_type = "Simple Keyword"
    /\ ~case_sensitive
    /\ search_term = <<97>>
    /\ \E j \in DOMAIN all_concordance_data : all_concordance_data[j][3] = <<65>>
    /\ Len(nlp(Decoded(0).text)) > Len(all_concordance_data)

\* C9: the second execution of the same search over the same upload ends with
\* the rows, the tables, the encodings and the messages of the first.
C9_SecondRunRepeatsFirst ==
    (previous # <<>> /\ pc = "done") =>
        /\ all_concordance_data = previous[1].data
        /\ file_stats = previous[1].file_stats
        /\ pattern_stats = previous[1].pattern_stats
        /\ file_encodings = previous[1].file_encodings
        /\ messages = previous[1].messages

\* C9's case: the second execution ended, with rows of two files.
C9_Witness ==
    /\ previous # <<>>
    /\ Searched
    /\ \E i, j \in DOMAIN origin : origin[i].file # origin[j].file

\* The files that have rows: the options of the file filter.
FilesWithRows == {all_concordance_data[i][1] : i \in DOMAIN all_concordance_data}

\* C10 as stated: whatever the file filter selects, the export holds every
\* row of the result, in order and unchanged.
C10_ExportHoldsEveryRow ==
    (Searched /\ all_concordance_data # <<>>) => export = <<all_concordance_data>>

\* C10, amended: the export holds the rows whose file the filter selects, in
\* result order, each with its four cells (File, Pre-Context, Match,
\* Post-Context) unchanged; it is the whole result exactly when the filter
\* selects every file that has rows (the default).  A search without matches
\* offers no export.
C10_ExportIsTheFilteredRows ==
    /\ (Searched /\ all_concordance_data # <<>>) =>
          /\ export # <<>> /\ selected_files # <<>>
          /\ export[1] = SelectSeq(all_concordance_data,
                                   LAMBDA r : r[1] \in selected_files[1])
          /\ \A i \in DOMAIN export[1] : Len(export[1][i]) = 4
          /\ export[1] = all_concordance_data <=> selected_files[1] = FilesWithRows
    /\ (Searched /\ all_concordance_data = <<>>) => export = <<>>

\* C10's case: an export with some rows of the result, but not all.
C10_Witness ==
    /\ Searched
    /\ export # <<>>
    /\ export[1] # <<>>
    /\ export[1] # all_concordance_data

=============================================================================
